---- MODULE Spec2Model ----
(***************************************************************************)
(* A model of trek10inc/crop:                                              *)
(*   - crop/autoupdater.py : handler, the polling agent that decides       *)
(*     whether a provisioned product must be updated;                      *)
(*   - crop/filters.py : replace_function_artifacts and inject_autoupdate, *)
(*     the template transformations.                                       *)
(*                                                                         *)
(* Python str values are sequences of one-character strings where the code *)
(* looks inside them (split, join, basename); dicts whose keys are tested  *)
(* for presence are functions whose DOMAIN is the set of keys present;     *)
(* dicts that are iterated are sequences of <<key, value>> pairs in        *)
(* iteration order.                                                        *)
(***************************************************************************)
EXTENDS Integers, Sequences, FiniteSets, TLC

VARIABLES
    \* ---- the two external services (autoupdater.py reads them) ----
    now,            \* the services' clock
    artifacts,      \* the product's ProvisioningArtifacts, in list order
    cfStack,        \* the stack record describe_stacks returns
    \* ---- the configuration of the agent (os.environ) ----
    environ,
    \* ---- one invocation of handler ----
    pc,             \* position of the invocation
    product,        \* result of describe_product (line 15)
    stack,          \* result of describe_stacks (line 30)
    calls,          \* the external calls of this invocation, in order
    outcome,        \* how the invocation ended
    \* ---- history of the polling loop ----
    applied,        \* an update to the latest artifact was triggered and has settled
    invokedApplied, \* the current invocation started when applied held
    triggeredFor,   \* Id of the artifact the last successful update call named
    \* ---- filters.py: the document a filter works on ----
    template,       \* the template (mutated in place)
    original,       \* the template as it was before the calls
    error,          \* what the last call raised ("none": it returned)
    ncalls,         \* number of calls made on the document
    args,           \* arguments of the last call
    first,          \* the document after the first call
    asset_map       \* asset_key_map of replace_function_artifacts

engineVars == <<now, artifacts, cfStack, environ, pc, product, stack, calls,
                outcome, applied, invokedApplied, triggeredFor>>
filterVars == <<template, original, error, ncalls, args, first, asset_map>>
vars == <<now, artifacts, cfStack, environ, pc, product, stack, calls,
          outcome, applied, invokedApplied, triggeredFor,
          template, original, error, ncalls, args, first, asset_map>>

(***************************************************************************)
(* Bounds                                                                  *)
(***************************************************************************)
MaxTime == 2
MaxArtifacts == 2
MaxParams == 2
MaxResources == 2
MaxCalls == 2
MaxInterval == 2

(***************************************************************************)
(* Strings                                                                 *)
(***************************************************************************)
\* Index of the first occurrence of c in s, 0 when there is none.
FirstIndex(s, c) ==
    IF \E i \in 1..Len(s) : s[i] = c
    THEN CHOOSE i \in 1..Len(s) : s[i] = c /\ \A j \in 1..(i-1) : s[j] # c
    ELSE 0

\* Index of the last occurrence of c in s, 0 when there is none.
LastIndex(s, c) ==
    IF \E i \in 1..Len(s) : s[i] = c
    THEN CHOOSE i \in 1..Len(s) : s[i] = c /\ \A j \in (i+1)..Len(s) : s[j] # c
    ELSE 0

\* str.split(sep): the list of the segments between the separators.
RECURSIVE Split(_, _)
Split(s, sep) ==
    LET i == FirstIndex(s, sep) IN
    IF i = 0 THEN <<s>>
    ELSE <<SubSeq(s, 1, i - 1)>> \o Split(SubSeq(s, i + 1, Len(s)), sep)

\* sep.join(segs)
RECURSIVE Join(_, _)
Join(segs, sep) ==
    IF segs = <<>> THEN <<>>
    ELSE IF Len(segs) = 1 THEN segs[1]
    ELSE segs[1] \o <<sep>> \o Join(Tail(segs), sep)

\* lst[n:]
SliceFrom(lst, n) == SubSeq(lst, n + 1, Len(lst))


(***************************************************************************)
(* autoupdater.py: the services handler talks to                           *)
(***************************************************************************)
NoProduct == [none |-> "product"]
NoStack == [none |-> "stack"]

Settled == {"CREATE_COMPLETE", "UPDATE_COMPLETE", "UPDATE_ROLLBACK_COMPLETE"}
InProgress == {"CREATE_IN_PROGRESS", "UPDATE_IN_PROGRESS"}

\* Names of the enclosing stack (os.environ['StackName']).
StackNames == { <<"S", "C", "-", "x", "-", "p", "p", "-", "a">>,
                <<"S", "C", "-", "x", "-", "p", "p">>,
                <<"S", "C", "-", "x">> }

ParamKeys == {"Stage", "Size"}

\* The parameter lists a stack may carry: distinct keys, in any order.
ParamLists ==
    { ps \in UNION { [1..n -> [ParameterKey : ParamKeys, ParameterValue : {"v"}]]
                     : n \in 0..MaxParams } :
        \A i, j \in 1..Len(ps) : i # j => ps[i].ParameterKey # ps[j].ParameterKey }

Last(s) == s[Len(s)]

HasLastUpdated(st) == "LastUpdatedTime" \in DOMAIN st

\* The history of the polling loop: the latest artifact has been triggered
\* and the stack has settled with a last-updated time not before it.
AppliedNow(arts, st, trig) ==
    /\ arts # <<>>
    /\ trig = Last(arts).Id
    /\ st.StackStatus \in Settled
    /\ HasLastUpdated(st)
    /\ st.LastUpdatedTime >= Last(arts).CreatedTime

History(newer) ==
    /\ applied' = ((~newer /\ applied) \/ AppliedNow(artifacts', cfStack', triggeredFor'))
    /\ invokedApplied' = (~newer /\ invokedApplied)

NoDocument == [Resources |-> <<>>]
NoCall == [none |-> "call"]

InitFilterIdle ==
    /\ template = NoDocument
    /\ original = NoDocument
    /\ error = [type |-> "none"]
    /\ ncalls = 0
    /\ args = NoCall
    /\ first = NoCall
    /\ asset_map = <<>>

InitEngine ==
    /\ now = 0
    /\ artifacts \in { <<>>, <<[Id |-> 1, CreatedTime |-> 0]>> }
    /\ \E ps \in ParamLists :
         cfStack = [StackStatus |-> "CREATE_IN_PROGRESS", CreationTime |-> 0,
                    Parameters |-> ps]
    /\ \E n \in StackNames :
         environ = [ProductId |-> "prod-1", StackName |-> n,
                    PortfolioId |-> "port-1", AutoUpdaterRoleARN |-> "arn:role"]
    /\ pc = "idle"
    /\ product = NoProduct
    /\ stack = NoStack
    /\ calls = <<>>
    /\ outcome = "none"
    /\ applied = FALSE
    /\ invokedApplied = FALSE
    /\ triggeredFor = 0
    /\ InitFilterIdle

\* The services and the agent at rest, for the specifications of filters.py.
InitEngineIdle ==
    /\ now = 0
    /\ artifacts = <<>>
    /\ cfStack = [StackStatus |-> "CREATE_COMPLETE", CreationTime |-> 0,
                  Parameters |-> <<>>]
    /\ environ = [ProductId |-> "prod-1", StackName |-> <<"S", "C", "-", "x">>,
                  PortfolioId |-> "port-1", AutoUpdaterRoleARN |-> "arn:role"]
    /\ pc = "idle"
    /\ product = NoProduct
    /\ stack = NoStack
    /\ calls = <<>>
    /\ outcome = "none"
    /\ applied = FALSE
    /\ invokedApplied = FALSE
    /\ triggeredFor = 0

\* The services' clock advances.
Tick ==
    /\ now < MaxTime
    /\ now' = now + 1
    /\ UNCHANGED <<artifacts, cfStack, environ, pc, product, stack, calls, outcome,
                   triggeredFor>>
    /\ History(FALSE)
    /\ UNCHANGED filterVars

\* The product's owner publishes a provisioning artifact: it is appended to
\* the list; its creation time is not in the future.
PublishArtifact ==
    /\ Len(artifacts) < MaxArtifacts
    /\ UNCHANGED <<now, cfStack, environ, pc, product, stack, calls, outcome,
                   triggeredFor>>
    /\ \E t \in 0..now :
         /\ artifacts' = Append(artifacts, [Id |-> Len(artifacts) + 1, CreatedTime |-> t])
         /\ History(artifacts # <<>> /\ t > Last(artifacts).CreatedTime)
    /\ UNCHANGED filterVars

\* A stack operation in flight ends.
StackSettles ==
    /\ cfStack.StackStatus \in InProgress
    /\ \/ /\ cfStack.StackStatus = "CREATE_IN_PROGRESS"
          /\ cfStack' = [cfStack EXCEPT !.StackStatus = "CREATE_COMPLETE"]
       \/ /\ cfStack.StackStatus = "UPDATE_IN_PROGRESS"
          /\ \E s \in {"UPDATE_COMPLETE", "UPDATE_ROLLBACK_COMPLETE"} :
               cfStack' = [cfStack EXCEPT !.StackStatus = s]
    /\ UNCHANGED <<now, artifacts, environ, pc, product, stack, calls, outcome,
                   triggeredFor>>
    /\ History(FALSE)
    /\ UNCHANGED filterVars

\* The stack service starts an update of a settled stack.
StartUpdate(st) ==
    [k \in DOMAIN st \cup {"LastUpdatedTime"} |->
        IF k = "StackStatus" THEN "UPDATE_IN_PROGRESS"
        ELSE IF k = "LastUpdatedTime" THEN now
        ELSE st[k]]

\* An operator updates the stack by hand.
OperatorUpdate ==
    /\ cfStack.StackStatus \in Settled
    /\ cfStack' = StartUpdate(cfStack)
    /\ UNCHANGED <<now, artifacts, environ, pc, product, stack, calls, outcome,
                   triggeredFor>>
    /\ History(FALSE)
    /\ UNCHANGED filterVars


(***************************************************************************)
(* autoupdater.py: handler                                                 *)
(***************************************************************************)
\* line 10: '-'.join(os.environ['StackName'].split('-')[2:])
ProvisionedProductId(env) == Join(SliceFrom(Split(env.StackName, "-"), 2), "-")

\* A variant that never looks at LastUpdatedTime.
LastAction_CreationOnly(st) == st.CreationTime

\* lines 36-38: the time of the stack's last action.
LastAction(st) ==
    IF HasLastUpdated(st) THEN st.LastUpdatedTime ELSE st.CreationTime

\* A variant that also updates when the two times are equal.
NewerThan_OrEqual(created, last_action) == created >= last_action

\* line 42: latest_artifact['CreatedTime'] > last_action
NewerThan(created, last_action) == created > last_action

\* A variant that passes the current values along.
BuildParams_WithValues(st) ==
    [i \in 1..Len(st.Parameters) |->
        [Key |-> st.Parameters[i].ParameterKey,
         Value |-> st.Parameters[i].ParameterValue,
         UsePreviousValue |-> TRUE]]

\* lines 45-50: one entry per parameter of the stack, in its order.
BuildParams(st) ==
    [i \in 1..Len(st.Parameters) |->
        [Key |-> st.Parameters[i].ParameterKey, UsePreviousValue |-> TRUE]]

\* lines 52-57: the update call.
UpdateCall(env, prod, st) ==
    [api |-> "update_provisioned_product",
     ProvisionedProductId |-> ProvisionedProductId(env),
     ProductId |-> env.ProductId,
     ProvisioningArtifactId |-> Last(prod.ProvisioningArtifacts).Id,
     ProvisioningParameters |-> BuildParams(st)]

\* sys.exit(0), or falling off the end of handler.
Exit(how) ==
    /\ pc' = "done"
    /\ outcome' = how

\* An exception leaves handler.
Raise == Exit("exception")

\* lines 5-12: the schedule invokes handler; nothing is kept from the run before.
Invoke ==
    /\ pc \in {"idle", "done"}
    /\ pc' = "describe_product"
    /\ product' = NoProduct
    /\ stack' = NoStack
    /\ calls' = <<>>
    /\ outcome' = "running"
    /\ UNCHANGED <<now, artifacts, cfStack, environ, triggeredFor>>
    /\ applied' = applied
    /\ invokedApplied' = applied
    /\ UNCHANGED filterVars

\* lines 14-16: describe_product returns the product, or fails.
DescribeProduct ==
    /\ pc = "describe_product"
    /\ calls' = Append(calls, [api |-> "describe_product", Id |-> environ.ProductId])
    /\ \/ /\ product' = [ProvisioningArtifacts |-> artifacts]
          /\ pc' = "describe_stacks"
       \/ /\ product' = NoProduct
          /\ pc' = "associate"
    /\ UNCHANGED <<now, artifacts, cfStack, environ, stack, outcome, triggeredFor>>
    /\ History(FALSE)
    /\ UNCHANGED filterVars

\* A variant that tries describe_product again after enrolling.
Associate_Retry ==
    /\ pc = "associate"
    /\ calls' = Append(calls, [api |-> "associate_principal_with_portfolio",
                               PortfolioId |-> environ.PortfolioId,
                               PrincipalARN |-> environ.AutoUpdaterRoleARN,
                               PrincipalType |-> "IAM"])
    /\ \/ pc' = "describe_product" /\ outcome' = outcome
       \/ Raise
    /\ UNCHANGED <<now, artifacts, cfStack, environ, product, stack, triggeredFor>>
    /\ History(FALSE)
    /\ UNCHANGED filterVars

\* lines 21-27: the except branch: one associate call, then sys.exit(0); when
\* the call itself fails its exception leaves handler.
Associate ==
    /\ pc = "associate"
    /\ calls' = Append(calls, [api |-> "associate_principal_with_portfolio",
                               PortfolioId |-> environ.PortfolioId,
                               PrincipalARN |-> environ.AutoUpdaterRoleARN,
                               PrincipalType |-> "IAM"])
    /\ \/ Exit("enroll-and-exit")
       \/ Raise
    /\ UNCHANGED <<now, artifacts, cfStack, environ, product, stack, triggeredFor>>
    /\ History(FALSE)
    /\ UNCHANGED filterVars

\* lines 32-42: what handler does with the stack record it has read.
Decide(st) ==
    IF st.StackStatus \notin Settled
    THEN Exit("busy-exit")
    ELSE IF product.ProvisioningArtifacts = <<>>
    THEN Raise      \* line 40: [-1] of an empty list, IndexError
    ELSE IF NewerThan(Last(product.ProvisioningArtifacts).CreatedTime, LastAction(st))
    THEN pc' = "update_provisioned_product" /\ outcome' = outcome
    ELSE Exit("no-op-exit")

\* lines 30-42: describe_stacks returns the stack record, or fails.
DescribeStacks ==
    /\ pc = "describe_stacks"
    /\ calls' = Append(calls, [api |-> "describe_stacks", StackName |-> environ.StackName])
    /\ \/ /\ stack' = cfStack
          /\ Decide(cfStack)
       \/ /\ stack' = NoStack
          /\ Raise
    /\ UNCHANGED <<now, artifacts, cfStack, environ, product, triggeredFor>>
    /\ History(FALSE)
    /\ UNCHANGED filterVars

\* lines 43-57: the update call. The service starts the update of a settled
\* stack; on a stack already in flight the call is a no-op or is rejected.
UpdateProvisionedProduct ==
    /\ pc = "update_provisioned_product"
    /\ calls' = Append(calls, UpdateCall(environ, product, stack))
    /\ \/ /\ Exit("update-triggered-exit")
          /\ triggeredFor' = Last(product.ProvisioningArtifacts).Id
          /\ cfStack' = IF cfStack.StackStatus \in Settled
                        THEN StartUpdate(cfStack) ELSE cfStack
       \/ /\ Raise
          /\ UNCHANGED <<triggeredFor, cfStack>>
    /\ UNCHANGED <<now, artifacts, environ, product, stack>>
    /\ History(FALSE)
    /\ UNCHANGED filterVars

NextEngine ==
    \/ Tick
    \/ PublishArtifact
    \/ StackSettles
    \/ OperatorUpdate
    \/ Invoke
    \/ DescribeProduct
    \/ Associate
    \/ DescribeStacks
    \/ UpdateProvisionedProduct

SpecEngine == InitEngine /\ [][NextEngine]_vars


(***************************************************************************)
(* Claims about handler                                                    *)
(***************************************************************************)
ApiCalls(api) == { i \in 1..Len(calls) : calls[i].api = api }

UpdateIssued == ApiCalls("update_provisioned_product") # {}

DescribeProductFailed == calls # <<>> /\ product = NoProduct

\* The calls made after the status read.
AfterStatusRead ==
    IF ApiCalls("describe_stacks") = {} THEN <<>>
    ELSE SliceFrom(calls, CHOOSE i \in ApiCalls("describe_stacks") : TRUE)

\* C1: in an invocation whose describe_product succeeded, an update call is
\* issued iff the status read is one of the three settled ones and the last
\* artifact's created time is strictly greater than last_action_time (the
\* last-updated time when present, the creation time otherwise); otherwise
\* no call at all follows the status read.
C1_DecisionCorrect ==
    (pc = "done" /\ product # NoProduct) =>
        /\ UpdateIssued <=>
             /\ stack # NoStack
             /\ stack.StackStatus \in
                  {"CREATE_COMPLETE", "UPDATE_COMPLETE", "UPDATE_ROLLBACK_COMPLETE"}
             /\ product.ProvisioningArtifacts # <<>>
             /\ product.ProvisioningArtifacts[Len(product.ProvisioningArtifacts)].CreatedTime
                  > (IF "LastUpdatedTime" \in DOMAIN stack
                     THEN stack.LastUpdatedTime ELSE stack.CreationTime)
        /\ UpdateIssued => Len(AfterStatusRead) = 1
        /\ ~UpdateIssued => AfterStatusRead = <<>>

\* An update was issued against a stack that had been updated before.
C1_Witness ==
    /\ pc = "done"
    /\ UpdateIssued
    /\ stack # NoStack
    /\ "LastUpdatedTime" \in DOMAIN stack

\* C2: when describe_product fails the invocation makes exactly one
\* enrollment call, for the configured portfolio and the agent's own role,
\* and ends: no status read, no update call, no second describe_product.
C2_EnrollOnceAndExit ==
    DescribeProductFailed =>
        /\ stack = NoStack
        /\ ApiCalls("describe_stacks") = {}
        /\ ApiCalls("update_provisioned_product") = {}
        /\ Cardinality(ApiCalls("describe_product")) = 1
        /\ pc \in {"associate", "done"}
        /\ pc = "associate" => Len(calls) = 1
        /\ pc = "done" =>
             /\ Len(calls) = 2
             /\ calls[2] = [api |-> "associate_principal_with_portfolio",
                            PortfolioId |-> environ.PortfolioId,
                            PrincipalARN |-> environ.AutoUpdaterRoleARN,
                            PrincipalType |-> "IAM"]

C2_Witness ==
    /\ DescribeProductFailed
    /\ pc = "done"
    /\ outcome = "enroll-and-exit"

\* C3: every invocation ends in one of the four successful outcomes,
\* whatever the services return or fail with.
C3_AlwaysSuccessful ==
    pc = "done" =>
        outcome \in {"enroll-and-exit", "busy-exit", "no-op-exit", "update-triggered-exit"}

\* The part of a stack name after its second hyphen; empty when it has fewer
\* than two hyphens.
AfterSecondHyphen(name) ==
    LET hy == { i \in 1..Len(name) : name[i] = "-" } IN
    IF Cardinality(hy) < 2 THEN <<>>
    ELSE LET p == CHOOSE i \in hy : Cardinality({ j \in hy : j < i }) = 1
         IN  SubSeq(name, p + 1, Len(name))

\* C4: an update call carries one entry per parameter of the instance, same
\* keys in the same order, each marked UsePreviousValue and without a value,
\* and names the derived provisioned-product id, the configured product id
\* and the id of the last artifact of the product's list.
C4_ParameterPreservation ==
    \A i \in ApiCalls("update_provisioned_product") :
        LET c == calls[i]
            ps == c.ProvisioningParameters
        IN  /\ Len(ps) = Len(cfStack.Parameters)
            /\ \A j \in 1..Len(ps) :
                 /\ DOMAIN ps[j] = {"Key", "UsePreviousValue"}
                 /\ ps[j].Key = cfStack.Parameters[j].ParameterKey
                 /\ ps[j].UsePreviousValue = TRUE
            /\ c.ProvisionedProductId = AfterSecondHyphen(environ.StackName)
            /\ c.ProductId = environ.ProductId
            /\ c.ProvisioningArtifactId
                 = product.ProvisioningArtifacts[Len(product.ProvisioningArtifacts)].Id

C4_Witness ==
    /\ UpdateIssued
    /\ Len(cfStack.Parameters) = 2
    /\ \E i \in ApiCalls("update_provisioned_product") :
         /\ Len(calls[i].ProvisioningParameters) = 2
         /\ calls[i].ProvisionedProductId = <<"p", "p", "-", "a">>

\* C9: once an update to the latest artifact has been triggered and the stack
\* has settled with a last-updated time not before that artifact's created
\* time, no later invocation issues an update call until a newer artifact is
\* appended.
C9_NoRetrigger ==
    invokedApplied => (pc # "update_provisioned_product" /\ ~UpdateIssued)

C9_Witness ==
    /\ invokedApplied
    /\ pc = "done"
    /\ outcome = "no-op-exit"
    /\ stack.StackStatus = "UPDATE_COMPLETE"


(***************************************************************************)
(* filters.py: dicts                                                       *)
(***************************************************************************)
\* A dict that is iterated: a sequence of <<key, value>> pairs, keys unique.
DictKeys(d) == { d[i][1] : i \in 1..Len(d) }

Has(d, k) == k \in DictKeys(d)

Get(d, k) == d[CHOOSE i \in 1..Len(d) : d[i][1] = k][2]

\* d[k] = v: in place when k is a key, a new last entry otherwise.
Put(d, k, v) ==
    IF Has(d, k)
    THEN [i \in 1..Len(d) |-> IF d[i][1] = k THEN <<k, v>> ELSE d[i]]
    ELSE Append(d, <<k, v>>)

\* A dict with a few fixed keys (a template, a resource): a function whose
\* DOMAIN holds the keys present. rec[k] = v:
SetKey(rec, k, v) ==
    [x \in DOMAIN rec \cup {k} |-> IF x = k THEN v ELSE rec[x]]

\* rec.setdefault(k, v)
SetDefault(rec, k, v) == IF k \in DOMAIN rec THEN rec ELSE SetKey(rec, k, v)

NoError == [type |-> "none"]
ValueError(msg) == [type |-> "ValueError", msg |-> msg]
KeyError(key) == [type |-> "KeyError", key |-> key]

\* What a call leaves: the document as mutated so far, and what it raised.
Returned(t) == [template |-> t, error |-> NoError]
Raised(t, e) == [template |-> t, error |-> e]

(***************************************************************************)
(* filters.py: inject_autoupdate                                           *)
(***************************************************************************)
ReservedResources == {"CROPAutoUpdaterRole", "CROPAutoUpdaterEvent",
                      "CROPAutoUpdaterEventPermission", "CROPAutoUpdaterFunction"}

\* lines 81-111
RoleResource ==
    [Type |-> "AWS::IAM::Role",
     Properties |->
        [AssumeRolePolicyDocument |->
            [Action |-> "sts:AssumeRole", Effect |-> "Allow",
             Service |-> "lambda.amazonaws.com"],
         Policies |->
            [PolicyName |-> "AutoUpdateServiceCatalog",
             Action |-> "*", Effect |-> "Allow", Resource |-> "*"]]]

\* lines 116-119
IntervalString(interval) ==
    IF interval = 1 THEN <<1, " minute">> ELSE <<interval, " minutes">>

\* lines 122-132
EventResource(interval) ==
    [Type |-> "AWS::Events::Rule",
     Properties |->
        [ScheduleExpression |-> <<"rate(", IntervalString(interval), ")">>,
         State |-> "ENABLED",
         Targets |-> <<[Arn |-> <<"Fn::GetAtt", "CROPAutoUpdaterFunction", "Arn">>,
                        Id |-> "autoUpdaterSchedule"]>>]]

\* lines 135-143
PermissionResource ==
    [Type |-> "AWS::Lambda::Permission",
     Properties |->
        [Action |-> "lambda:InvokeFunction",
         FunctionName |-> <<"Fn::GetAtt", "CROPAutoUpdaterFunction", "Arn">>,
         Principal |-> "events.amazonaws.com",
         SourceArn |-> <<"Fn::GetAtt", "CROPAutoUpdaterEvent", "Arn">>]]

\* lines 145-174
FunctionResource(catalog_id, product_id) ==
    [Type |-> "AWS::Lambda::Function",
     Properties |->
        [Code |-> [ZipFile |-> <<"Fn::Join", "\n", "autoupdater.py">>],
         Description |-> "AutoUpdater for ServiceCatalog Function",
         Handler |-> "index.handler",
         MemorySize |-> "256",
         Environment |->
            [PortfolioId |-> catalog_id,
             StackName |-> <<"Ref", "AWS::StackName">>,
             AutoUpdaterRoleARN |-> <<"Fn::GetAtt", "CROPAutoUpdaterRole", "Arn">>,
             ProductId |-> product_id],
         Role |-> <<"Fn::GetAtt", "CROPAutoUpdaterRole", "Arn">>,
         Runtime |-> "python2.7",
         Timeout |-> 30]]

\* lines 178-184
AutoUpdatesParameter ==
    [Type |-> "String",
     Description |-> "Allow the service to automatically update itself",
     AllowedValues |-> <<"Enable", "Disable">>,
     Default |-> "Enable"]

\* line 188
AutoUpdatingCondition == <<"Fn::Equals", <<"Ref", "AutoUpdates">>, "Enable">>

\* template['Resources'][id] = resource
PutResource(t, id, resource) ==
    SetKey(t, "Resources", Put(t["Resources"], id, resource))

\* template['Resources'][id]['Condition'] = cond
PutResourceCondition(t, id, cond) ==
    PutResource(t, id, SetKey(Get(t["Resources"], id), "Condition", cond))

\* lines 66-78: the three collision checks, in the code's order. Line 74
\* subscripts template['Parameters'] whether the key is there or not.
InjectPrecondition(t) ==
    IF \E x \in ReservedResources : Has(t["Resources"], x)
    THEN ValueError("Resource logical IDs conflict with keys used by CROP")
    ELSE IF "Parameters" \notin DOMAIN t
    THEN KeyError("Parameters")
    ELSE IF Has(t["Parameters"], "AutoUpdates")
    THEN ValueError("Param IDs conflict with Param IDs used by CROP")
    ELSE IF "Conditions" \in DOMAIN t /\ Has(t["Conditions"], "CROPAutoUpdating")
    THEN ValueError("Condition IDs conflict with Conditions IDs used by CROP")
    ELSE NoError

\* lines 176-192: the parameter, the condition and the four references to it.
InjectOptional(t) ==
    LET t1 == SetDefault(t, "Parameters", <<>>)
        t2 == SetKey(t1, "Parameters", Put(t1["Parameters"], "AutoUpdates", AutoUpdatesParameter))
        t3 == SetDefault(t2, "Conditions", <<>>)
        t4 == SetKey(t3, "Conditions", Put(t3["Conditions"], "CROPAutoUpdating", AutoUpdatingCondition))
        t5 == PutResourceCondition(t4, "CROPAutoUpdaterFunction", "CROPAutoUpdating")
        t6 == PutResourceCondition(t5, "CROPAutoUpdaterEventPermission", "CROPAutoUpdating")
        t7 == PutResourceCondition(t6, "CROPAutoUpdaterEvent", "CROPAutoUpdating")
    IN  PutResourceCondition(t7, "CROPAutoUpdaterRole", "CROPAutoUpdating")

\* lines 49-196
inject_autoupdate(t, catalog_id, product_id, force, interval) ==
    IF InjectPrecondition(t) # NoError
    THEN Raised(t, InjectPrecondition(t))
    ELSE LET t1 == PutResource(t, "CROPAutoUpdaterRole", RoleResource) IN
    IF interval < 1
    THEN Raised(t1, ValueError("Cannot specify an interval less than 1 (minute)"))
    ELSE LET t2 == PutResource(t1, "CROPAutoUpdaterEvent", EventResource(interval))
             t3 == PutResource(t2, "CROPAutoUpdaterEventPermission", PermissionResource)
             t4 == PutResource(t3, "CROPAutoUpdaterFunction",
                               FunctionResource(catalog_id, product_id))
         IN  IF force THEN Returned(t4) ELSE Returned(InjectOptional(t4))


\* The templates inject_autoupdate is given: Resources always there, the
\* other sections there or not, reserved ids there or not.
ResourceIdOrder == <<"AppBucket", "CROPAutoUpdaterRole", "CROPAutoUpdaterEvent",
                     "CROPAutoUpdaterEventPermission", "CROPAutoUpdaterFunction">>

UserResource == [Type |-> "AWS::S3::Bucket", Properties |-> [BucketName |-> "b"]]

\* The dict with the keys ids, in the order of order, all valued v.
DictOf(order, ids, v) ==
    LET ks == SelectSeq(order, LAMBDA k : k \in ids)
    IN  [i \in 1..Len(ks) |-> <<ks[i], v>>]

Sections(order, v) ==
    { DictOf(order, ids, v) : ids \in SUBSET { order[i] : i \in 1..Len(order) } }

\* The records with the keys of some subset of optional, plus Resources.
InjectInputs ==
    { [k \in {"Resources"} \cup opt |->
         IF k = "Resources" THEN res
         ELSE IF k = "Parameters" THEN par
         ELSE IF k = "Conditions" THEN cond
         ELSE out] :
        opt \in SUBSET {"Parameters", "Conditions", "Outputs"},
        res \in Sections(ResourceIdOrder, UserResource),
        par \in Sections(<<"Stage", "AutoUpdates">>, [Type |-> "String"]),
        cond \in Sections(<<"IsProd", "CROPAutoUpdating">>, <<"Fn::Equals", "x", "y">>),
        out \in { <<<<"BucketName", [Value |-> <<"Ref", "AppBucket">>]>>>> } }

Intervals == -1..MaxInterval

InitInject ==
    /\ InitEngineIdle
    /\ template \in InjectInputs
    /\ original = template
    /\ error = NoError
    /\ ncalls = 0
    /\ args = NoCall
    /\ first = NoCall
    /\ asset_map = <<>>

\* A caller applies inject_autoupdate to the document it holds.
InjectCall ==
    /\ ncalls < MaxCalls
    /\ \E force \in BOOLEAN, interval \in Intervals :
         LET r == inject_autoupdate(template, "port-1", "prod-1", force, interval)
             a == [force |-> force, interval |-> interval]
         IN  /\ template' = r.template
             /\ error' = r.error
             /\ original' = template
             /\ args' = a
             /\ first' = IF ncalls = 0
                         THEN [args |-> a, before |-> template,
                               after |-> r.template, error |-> r.error]
                         ELSE first
    /\ ncalls' = ncalls + 1
    /\ UNCHANGED asset_map
    /\ UNCHANGED engineVars

NextInject == InjectCall

SpecInject == InitInject /\ [][NextInject]_vars


(***************************************************************************)
(* Claims about inject_autoupdate                                          *)
(***************************************************************************)
\* The keys of a section, none when the section is absent.
SectionKeys(t, section) ==
    IF section \in DOMAIN t THEN DictKeys(t[section]) ELSE {}

\* Every entry of the section of t is in u, with the same value.
SectionKept(t, u, section) ==
    section \in DOMAIN t =>
        /\ section \in DOMAIN u
        /\ \A k \in DictKeys(t[section]) :
             Has(u[section], k) /\ Get(u[section], k) = Get(t[section], k)

HasReservedId(t) ==
    \/ SectionKeys(t, "Resources") \cap ReservedResources # {}
    \/ "AutoUpdates" \in SectionKeys(t, "Parameters")
    \/ "CROPAutoUpdating" \in SectionKeys(t, "Conditions")

\* C5: on a template that holds a reserved resource, parameter or condition
\* id, inject_autoupdate fails with a precondition error (ValueError) and
\* leaves the template as it was, whatever force and interval are.
C5_CollisionGuard ==
    (ncalls > 0 /\ HasReservedId(original)) =>
        /\ error.type = "ValueError"
        /\ template = original

\* C6: on a template without reserved ids (Parameters, Conditions, Outputs
\* there or not) and with interval >= 1, inject_autoupdate succeeds; it adds
\* exactly the four resources; with force = false each carries the condition
\* CROPAutoUpdating and exactly the parameter AutoUpdates (default Enable)
\* and the condition comparing it to Enable are added; with force = true
\* the resources carry no condition and nothing else is added. What was in
\* the template is unchanged.
C6_InjectAddsExactly ==
    (ncalls > 0 /\ ~HasReservedId(original) /\ args.interval >= 1) =>
        /\ error = NoError
        /\ SectionKeys(template, "Resources")
             = SectionKeys(original, "Resources") \cup ReservedResources
        /\ \A section \in {"Resources", "Parameters", "Conditions", "Outputs"} :
             SectionKept(original, template, section)
        /\ SectionKeys(template, "Outputs") = SectionKeys(original, "Outputs")
        /\ args.force =>
             /\ \A id \in ReservedResources :
                  "Condition" \notin DOMAIN Get(template["Resources"], id)
             /\ SectionKeys(template, "Parameters") = SectionKeys(original, "Parameters")
             /\ SectionKeys(template, "Conditions") = SectionKeys(original, "Conditions")
        /\ ~args.force =>
             /\ \A id \in ReservedResources :
                  /\ "Condition" \in DOMAIN Get(template["Resources"], id)
                  /\ Get(template["Resources"], id)["Condition"] = "CROPAutoUpdating"
             /\ SectionKeys(template, "Parameters")
                  = SectionKeys(original, "Parameters") \cup {"AutoUpdates"}
             /\ Get(template["Parameters"], "AutoUpdates")["Default"] = "Enable"
             /\ SectionKeys(template, "Conditions")
                  = SectionKeys(original, "Conditions") \cup {"CROPAutoUpdating"}
             /\ Get(template["Conditions"], "CROPAutoUpdating")
                  = <<"Fn::Equals", <<"Ref", "AutoUpdates">>, "Enable">>

\* C10: a first call with interval < 1 on a template without reserved ids
\* fails with a precondition error and leaves the role, and nothing else,
\* added; a second call on that document then fails with the resource-id
\* collision error.
C10_PartialMutation ==
    (ncalls > 0 /\ ~HasReservedId(first.before) /\ first.args.interval < 1) =>
        /\ first.error.type = "ValueError"
        /\ SectionKeys(first.after, "Resources")
             = SectionKeys(first.before, "Resources") \cup {"CROPAutoUpdaterRole"}
        /\ SectionKeys(first.after, "Parameters") = SectionKeys(first.before, "Parameters")
        /\ SectionKeys(first.after, "Conditions") = SectionKeys(first.before, "Conditions")
        /\ ncalls > 1 =>
             error = ValueError("Resource logical IDs conflict with keys used by CROP")


(***************************************************************************)
(* filters.py: replace_function_artifacts                                  *)
(***************************************************************************)
\* A variant that takes the whole key for the asset's name.
Basename_WholeKey(key) == key

\* line 29: os.path.basename: what follows the last slash.
Basename(key) == SliceFrom(key, LastIndex(key, "/"))

\* lines 32-40: the new Code, from a text key or from a (key, version) pair.
NewCode(asset_bucket, entry) ==
    IF entry.kind = "text"
    THEN [S3Bucket |-> asset_bucket, S3Key |-> entry.key]
    ELSE [S3Bucket |-> asset_bucket, S3Key |-> entry.key,
          S3ObjectVersion |-> entry.version]

\* line 43: resource['Properties']['Code'] = new_code
WithCode(resource, new_code) ==
    SetKey(resource, "Properties", SetKey(resource["Properties"], "Code", new_code))

\* lines 24-46: the loop from the i-th resource on. The document is mutated
\* in place, so what was rewritten stays rewritten when line 34 raises.
RECURSIVE ReplaceFrom(_, _, _, _)
ReplaceFrom(t, i, asset_bucket, asset_key_map) ==
    IF i > Len(t["Resources"]) THEN Returned(t)
    ELSE LET logical_id == t["Resources"][i][1]
             resource == t["Resources"][i][2]
         IN
    IF resource["Type"] # "AWS::Lambda::Function"
    THEN ReplaceFrom(t, i + 1, asset_bucket, asset_key_map)
    ELSE LET asset_name == Basename(resource["Properties"]["Code"]["S3Key"]) IN
    IF asset_name \notin DOMAIN asset_key_map
    THEN Raised(t, KeyError(asset_name))
    ELSE ReplaceFrom(
            PutResource(t, logical_id,
                        WithCode(resource, NewCode(asset_bucket, asset_key_map[asset_name]))),
            i + 1, asset_bucket, asset_key_map)

\* A variant that hands back the document untouched when a lookup fails.
replace_function_artifacts_AllOrNothing(t, asset_bucket, asset_key_map) ==
    LET r == ReplaceFrom(t, 1, asset_bucket, asset_key_map)
    IN  IF r.error = NoError THEN r ELSE Raised(t, r.error)

\* lines 17-46
replace_function_artifacts(t, asset_bucket, asset_key_map) ==
    ReplaceFrom(t, 1, asset_bucket, asset_key_map)

\* The S3 keys function resources start with, and those the asset map gives.
OldKeys == { <<"a">>, <<"s", "/", "a">>, <<"s", "/", "b">> }
NewKeys == { <<"a">>, <<"b">>, <<"n", "/", "a">>, <<"n", "/", "b">> }
AssetNames == { <<"a">>, <<"b">> }

AssetEntries ==
    [kind : {"text"}, key : NewKeys]
        \cup [kind : {"pair"}, key : NewKeys, version : {"v1"}]

AssetMaps == UNION { [names -> AssetEntries] : names \in SUBSET AssetNames }

LambdaFunction(key) ==
    [Type |-> "AWS::Lambda::Function",
     Properties |-> [Code |-> [S3Bucket |-> "ServerlessDeploymentBucket", S3Key |-> key],
                     Handler |-> "handler.main"]]

\* The logical id of the i-th resource.
ResourceId(i) == <<"R", i>>

RewriteInputs ==
    { [Resources |-> [i \in 1..Len(rs) |-> <<ResourceId(i), rs[i]>>]] :
        rs \in UNION { [1..n -> {UserResource} \cup { LambdaFunction(k) : k \in OldKeys }]
                       : n \in 0..MaxResources } }

AssetBucket == "crop-assets"

InitRewrite ==
    /\ InitEngineIdle
    /\ template \in RewriteInputs
    /\ original = template
    /\ error = NoError
    /\ ncalls = 0
    /\ args = NoCall
    /\ first = NoCall
    /\ asset_map \in AssetMaps

\* A caller applies replace_function_artifacts to the document it holds,
\* with the same bucket and the same asset map each time.
RewriteCall ==
    /\ ncalls < MaxCalls
    /\ LET r == replace_function_artifacts(template, AssetBucket, asset_map)
           a == [asset_bucket |-> AssetBucket, asset_key_map |-> asset_map]
       IN  /\ template' = r.template
           /\ error' = r.error
           /\ original' = template
           /\ args' = a
           /\ first' = IF ncalls = 0
                       THEN [args |-> a, before |-> template,
                             after |-> r.template, error |-> r.error]
                       ELSE first
    /\ ncalls' = ncalls + 1
    /\ UNCHANGED asset_map
    /\ UNCHANGED engineVars

NextRewrite == RewriteCall

SpecRewrite == InitRewrite /\ [][NextRewrite]_vars


(***************************************************************************)
(* Claims about replace_function_artifacts                                 *)
(***************************************************************************)
\* The base name of a key: its longest suffix without a slash.
AfterLastSlash(key) ==
    CHOOSE suffix \in { SubSeq(key, i, Len(key)) : i \in 1..(Len(key) + 1) } :
        /\ \A j \in 1..Len(suffix) : suffix[j] # "/"
        /\ \A other \in { SubSeq(key, i, Len(key)) : i \in 1..(Len(key) + 1) } :
             (\A j \in 1..Len(other) : other[j] # "/") => Len(other) <= Len(suffix)

IsFunction(resource) == resource["Type"] = "AWS::Lambda::Function"

\* The positions of the function-type resources of t.
Functions(t) == { i \in 1..Len(t["Resources"]) : IsFunction(t["Resources"][i][2]) }

\* The asset name of the i-th resource of t, a function.
AssetName(t, i) == AfterLastSlash(t["Resources"][i][2]["Properties"]["Code"]["S3Key"])

\* The map has an entry for every function-type resource of t.
Covers(m, t) == \A i \in Functions(t) : AssetName(t, i) \in DOMAIN m

\* The Code the map gives the asset called name.
CodeFor(m, name) ==
    IF m[name].kind = "text"
    THEN [S3Bucket |-> AssetBucket, S3Key |-> m[name].key]
    ELSE [S3Bucket |-> AssetBucket, S3Key |-> m[name].key,
          S3ObjectVersion |-> m[name].version]

\* C7 as claimed: with a map that covers the template, a second application
\* with the same bucket and map succeeds and yields what the first yielded.
C7_IdempotentSameMap ==
    (ncalls = 2 /\ Covers(asset_map, first.before)) =>
        /\ error = NoError
        /\ template = first.after

\* The map sends the base name of each new key to the entry the key came from.
ClosedOn(m, t) ==
    \A i \in Functions(t) :
        LET entry == m[AssetName(t, i)]
        IN  /\ AfterLastSlash(entry.key) \in DOMAIN m
            /\ m[AfterLastSlash(entry.key)] = entry

\* C7 amended: with a map that covers the template and that maps the base
\* name of every new key it hands out to the same entry, a second
\* application with the same bucket and map succeeds and yields what the
\* first yielded.
C7_IdempotentClosedMap ==
    (ncalls = 2 /\ Covers(asset_map, first.before) /\ ClosedOn(asset_map, first.before)) =>
        /\ first.error = NoError
        /\ error = NoError
        /\ template = first.after

\* Two applications under a closed map, the first of which rewrote a key
\* kept under a prefix and attached an object version.
C7_Witness ==
    /\ ncalls = 2
    /\ Covers(asset_map, first.before)
    /\ ClosedOn(asset_map, first.before)
    /\ first.after # first.before
    /\ \E i \in Functions(template) :
         LET code == template["Resources"][i][2]["Properties"]["Code"]
         IN  /\ "S3ObjectVersion" \in DOMAIN code
             /\ code["S3Key"] # AfterLastSlash(code["S3Key"])
             /\ first.before["Resources"][i][2]["Properties"]["Code"]["S3Key"] # code["S3Key"]

\* The first function-type resource of t the map has no entry for.
FirstMissing(m, t) ==
    CHOOSE i \in Functions(t) :
        /\ AssetName(t, i) \notin DOMAIN m
        /\ \A j \in Functions(t) : j < i => AssetName(t, j) \in DOMAIN m

\* C8: when the map lacks the name of some function-type resource the call
\* fails with a lookup failure; the function-type resources before the first
\* such resource carry the whole new Code, that resource and all later ones
\* are as they were, and so is every resource that is no function.
C8_PartialRewrite ==
    (ncalls > 0 /\ ~Covers(asset_map, original)) =>
        LET k == FirstMissing(asset_map, original) IN
        /\ error = KeyError(AssetName(original, k))
        /\ Len(template["Resources"]) = Len(original["Resources"])
        /\ DOMAIN template = DOMAIN original
        /\ \A i \in 1..Len(original["Resources"]) :
             LET old == original["Resources"][i]
                 new == template["Resources"][i]
             IN  IF i < k /\ i \in Functions(original)
                 THEN /\ new[1] = old[1]
                      /\ new[2]["Type"] = old[2]["Type"]
                      /\ new[2]["Properties"]["Handler"] = old[2]["Properties"]["Handler"]
                      /\ new[2]["Properties"]["Code"]
                           = CodeFor(asset_map, AssetName(original, i))
                 ELSE new = old

\* A failed call that had rewritten a resource before the one it failed on.
C8_Witness ==
    /\ ncalls = 1
    /\ ~Covers(asset_map, original)
    /\ error.type = "KeyError"
    /\ FirstMissing(asset_map, original) > 1
    /\ template # original
    /\ \E i \in Functions(original) :
         /\ i < FirstMissing(asset_map, original)
         /\ "S3ObjectVersion" \in DOMAIN template["Resources"][i][2]["Properties"]["Code"]

====
